---- MODULE Spec2Model ----
(***************************************************************************)
(* A model of the chunk store of this repository: the master               *)
(* (src/master.py), its metadata records (src/metadata.py), the            *)
(* chunkserver (src/chunkserver.py) and the client (src/client.py).        *)
(*                                                                         *)
(* Python raises where the model says exc /= "none": a dataclass           *)
(* constructor called with a keyword that is no field of the class raises  *)
(* TypeError, reading an attribute an object does not have raises          *)
(* AttributeError, indexing a dict with a key it does not hold raises      *)
(* KeyError.  Classes are modelled by their field names, objects and dicts *)
(* by functions from names to values, so these outcomes are computed from  *)
(* the names the source uses and not assumed.                              *)
(***************************************************************************)
EXTENDS Integers, Sequences, FiniteSets, TLC

VARIABLES
    now,             \* the wall clock, time.time()
    file_registry,   \* GFSMaster.file_registry: filename -> FileMetadata
    chunk_metadata,  \* GFSMaster.chunk_metadata: chunk id -> ChunkMetadata
    chunkservers,    \* GFSMaster.chunkservers: chunkserver id -> info
    last_heartbeat,  \* GFSMaster.last_heartbeat: chunkserver id -> time
    chunks,          \* GFSChunkserver.chunks of every constructed chunkserver
    ret,             \* the most recent call: operation, arguments, outcome
    log,             \* history: what each buffer took since its latest create_chunk
    calls,           \* history: the chunkserver calls of the most recent client append
    appended,        \* history: per file, the data of the appends that returned True
    lock,            \* GFSMaster.lock: "free" or the thread that holds it
    caller,          \* per thread calling the master: its call and how far it is
    monitoring_active, \* GFSChunkserver.monitoring_active of every constructed chunkserver
    hb_thread        \* where each chunkserver's heartbeat thread is in _send_heartbeats

vars == <<now, file_registry, chunk_metadata, chunkservers, last_heartbeat, chunks, ret,
          log, calls, appended, lock, caller, monitoring_active, hb_thread>>

\* The threads' part of the state, and the master's tables.
threadvars == <<lock, caller, monitoring_active, hb_thread>>
tables == <<file_registry, chunk_metadata, chunkservers, last_heartbeat>>

---------------------------------------------------------------------------
(* Inputs and bounds *)

\* Chunkserver ids, file names, and the values _allocate_chunk can produce.
Nodes == {"cs1", "cs2"}
Files == {"f1", "f2"}
ChunkIds == {"c1", "c2"}
\* Threads that call the master at the same time.
Threads == {"t1", "t2"}
\* Byte strings handed to append, and the offsets and lengths handed to a chunkserver.
Data == {<<1>>, <<2, 3>>}
Offsets == {0, 2}
Lengths == {1, 4}
\* Chunk lists handed to register_chunkserver.
Reported == {{}, {"c1"}}
\* chunk_index values handed to get_chunk_locations.
Indexes == {-1, 0, 1}
\* The clock advances by one of these amounts and stops at MaxTime.
TickSteps == {30, 31}
MaxTime == 31
\* At most MaxLog append_data calls on a buffer between two create_chunk calls.
MaxLog == 2

\* The literal 30 of _select_chunkservers and of _monitor_chunkservers.
LivenessWindow == 30
\* config.py
REPLICATION_FACTOR == 3
LEASE_TIMEOUT == 60
CHUNK_SIZE == 64

EmptyMap == [x \in {} |-> x]
\* A thread that is in no call of the master.
Idle == [stage |-> "idle", op |-> "", name |-> "", chunk_id |-> "", locations |-> <<>>]
Min(a, b) == IF a < b THEN a ELSE b

---------------------------------------------------------------------------
(* metadata.py: the dataclasses, by their fields *)

ChunkMetadataFields == {"chunk_handle", "version", "locations", "primary", "lease_expiry"}
ChunkMetadataRequired == {"chunk_handle", "version"}
ChunkMetadataDefaults == [locations |-> {}, primary |-> "None", lease_expiry |-> 0]

FileMetadataFields == {"filename", "chunk_handles", "size"}
FileMetadataRequired == {"filename"}
FileMetadataDefaults == [chunk_handles |-> <<>>, size |-> 0]

\* A dataclass constructor called with the keyword arguments kw.
NewObject(fields, required, defaults, kw) ==
    IF DOMAIN kw \subseteq fields /\ required \subseteq DOMAIN kw
    THEN [exc |-> "none", val |-> kw @@ defaults]
    ELSE [exc |-> "TypeError", val |-> defaults]

NewChunkMetadata(kw) ==
    NewObject(ChunkMetadataFields, ChunkMetadataRequired, ChunkMetadataDefaults, kw)

NewFileMetadata(kw) ==
    NewObject(FileMetadataFields, FileMetadataRequired, FileMetadataDefaults, kw)

\* obj.name is readable
HasAttr(obj, name) == name \in DOMAIN obj

\* The outcome of a call: what it raised, the kind of value it returned, the value.
Outcome(exc, kind, val) == [exc |-> exc, kind |-> kind, val |-> val]
Raised(exc) == Outcome(exc, "raise", exc)
ReturnNone == Outcome("none", "None", "None")
ReturnBool(b) == Outcome("none", "bool", b)

\* A call: the operation, the file or chunkserver it names, its integer
\* argument, its set argument (the chunkservers a client reaches, the chunk
\* ids reported or addressed, the chunkservers found dead), and its outcome.
Call(op, name, arg, with, out) ==
    [op |-> op, name |-> name, arg |-> arg, with |-> with,
     exc |-> out.exc, kind |-> out.kind, val |-> out.val]

---------------------------------------------------------------------------
(* master.py *)

TypeOK ==
    /\ now \in 0..MaxTime
    /\ DOMAIN file_registry \subseteq Files
    /\ DOMAIN chunk_metadata \subseteq ChunkIds
    /\ DOMAIN chunkservers \subseteq Nodes
    /\ DOMAIN last_heartbeat \subseteq Nodes
    /\ DOMAIN chunks \subseteq Nodes

Init ==
    /\ now = 0
    /\ file_registry = EmptyMap
    /\ chunk_metadata = EmptyMap
    /\ chunkservers = EmptyMap
    /\ last_heartbeat = EmptyMap
    /\ chunks = EmptyMap
    /\ log = EmptyMap
    /\ calls = <<>>
    /\ appended = [f \in Files |-> <<>>]
    /\ ret = Call("init", "", 0, {}, ReturnNone)
    /\ lock = "free"
    /\ caller = [t \in Threads |-> Idle]
    /\ monitoring_active = EmptyMap
    /\ hb_thread = EmptyMap

\* Time passes between two calls.
Tick ==
    /\ \E d \in TickSteps :
        /\ now + d <= MaxTime
        /\ now' = now + d
    /\ ret' = Call("tick", "", 0, {}, ReturnNone)
    /\ UNCHANGED <<file_registry, chunk_metadata, chunkservers, last_heartbeat, chunks, log, calls, appended>>

\* register_chunkserver that makes a record for a reported chunk the table does
\* not know.
AddLocationsCreates(cm, chunkserver_id, reported) ==
    [c \in DOMAIN cm \cup reported |->
        IF c \in DOMAIN cm
        THEN IF c \in reported
             THEN [cm[c] EXCEPT !.locations = @ \cup {chunkserver_id}]
             ELSE cm[c]
        ELSE [NewChunkMetadata([chunk_handle |-> c, version |-> 1]).val
                 EXCEPT !.locations = {chunkserver_id}]]

\* register_chunkserver's effect on the chunk table: the chunkserver joins the
\* locations of the reported chunks the table knows.
AddLocations(cm, chunkserver_id, reported) ==
    [c \in DOMAIN cm |->
        IF c \in reported
        THEN [cm[c] EXCEPT !.locations = @ \cup {chunkserver_id}]
        ELSE cm[c]]

RegisterEffect(chunkserver_id, reported) ==
    /\ chunkservers' = (chunkserver_id :> [id |-> chunkserver_id, chunks |-> reported])
                            @@ chunkservers
    /\ last_heartbeat' = (chunkserver_id :> now) @@ last_heartbeat
    /\ chunk_metadata' = AddLocations(chunk_metadata, chunkserver_id, reported)

register_chunkserver(chunkserver_id, reported) ==
    /\ RegisterEffect(chunkserver_id, reported)
    /\ ret' = Call("register_chunkserver", chunkserver_id, 0, reported, ReturnNone)
    /\ UNCHANGED <<now, file_registry, chunks, log, calls, appended>>

\* heartbeat that also enters the chunkserver in the registry.
HeartbeatRegisters(chunkserver_id) ==
    /\ last_heartbeat' = (chunkserver_id :> now) @@ last_heartbeat
    /\ chunkservers' = (chunkserver_id :> [id |-> chunkserver_id, chunks |-> {}]) @@ chunkservers
    /\ ret' = Call("heartbeat", chunkserver_id, 0, {}, ReturnNone)
    /\ UNCHANGED <<now, file_registry, chunk_metadata, chunks, log, calls, appended>>

heartbeat(chunkserver_id) ==
    /\ last_heartbeat' = (chunkserver_id :> now) @@ last_heartbeat
    /\ ret' = Call("heartbeat", chunkserver_id, 0, {}, ReturnNone)
    /\ UNCHANGED <<now, file_registry, chunk_metadata, chunkservers, chunks, log, calls, appended>>

\* create_file without the test for a name already there.
CreateFileOverwrites(filename) ==
    [out |-> ReturnBool(TRUE),
     fr |-> (filename :> NewFileMetadata([filename |-> filename]).val) @@ file_registry]

\* create_file: its result and the registry it leaves.
CreateFileResult(filename) ==
    IF filename \in DOMAIN file_registry
    THEN [out |-> ReturnBool(FALSE), fr |-> file_registry]
    ELSE LET fm == NewFileMetadata([filename |-> filename])
         IN  IF fm.exc /= "none"
             THEN [out |-> Raised(fm.exc), fr |-> file_registry]
             ELSE [out |-> ReturnBool(TRUE), fr |-> (filename :> fm.val) @@ file_registry]

create_file(filename) ==
    /\ file_registry' = CreateFileResult(filename).fr
    /\ ret' = Call("create_file", filename, 0, {}, CreateFileResult(filename).out)
    /\ UNCHANGED <<now, chunk_metadata, chunkservers, last_heartbeat, chunks, log, calls, appended>>

\* _allocate_chunk: sixteen hex digits of a hash of the time and a random number.
\* Any value of ChunkIds can come out, one already in use included.
AllocateChunk == ChunkIds

\* Available without the test of the heartbeat's age.
AvailableAnyAge == DOMAIN chunkservers

\* _select_chunkservers: the registered chunkservers whose heartbeat is younger
\* than the window.  last_heartbeat.get(cs_id, 0) makes a chunkserver without a
\* heartbeat as old as the clock itself (seconds since 1970), which is never
\* younger than the window.
Available ==
    {cs \in DOMAIN chunkservers :
        cs \in DOMAIN last_heartbeat /\ now - last_heartbeat[cs] < LivenessWindow}

\* random.sample(population, k): k distinct members, in any order.
Sample(population, k) ==
    {s \in [1..k -> population] : \A i, j \in 1..k : s[i] = s[j] => i = j}

SelectChunkservers(count) ==
    Sample(Available, Min(count, Cardinality(Available)))

\* allocate_chunk_for_append that adds the chunk id to the file's list before it
\* builds the ChunkMetadata.
AllocateResultAppendsFirst(filename, chunk_id, locations) ==
    IF filename \notin DOMAIN file_registry
    THEN [out |-> ReturnNone, cm |-> chunk_metadata, fr |-> file_registry]
    ELSE IF locations = <<>>
    THEN [out |-> ReturnNone, cm |-> chunk_metadata, fr |-> file_registry]
    ELSE LET fr2 == [file_registry EXCEPT ![filename].chunk_handles = Append(@, chunk_id)]
             meta == NewChunkMetadata(
                        [chunk_id |-> chunk_id,
                         version |-> 1,
                         locations |-> {locations[i] : i \in DOMAIN locations},
                         primary |-> locations[1],
                         lease_expiry |-> now + LEASE_TIMEOUT])
         IN  IF meta.exc /= "none"
             THEN [out |-> Raised(meta.exc), cm |-> chunk_metadata, fr |-> fr2]
             ELSE [out |-> ReturnNone, cm |-> (chunk_id :> meta.val) @@ chunk_metadata, fr |-> fr2]

\* allocate_chunk_for_append with the chunk id and the locations it drew: its
\* outcome, and the chunk table and registry it leaves.  The ChunkMetadata
\* constructor is evaluated before the assignment to chunk_metadata[chunk_id],
\* so nothing is stored when it raises; file_meta.chunk_ids is read after it.
AllocateResult(filename, chunk_id, locations) ==
    IF filename \notin DOMAIN file_registry
    THEN [out |-> ReturnNone, cm |-> chunk_metadata, fr |-> file_registry]
    ELSE IF locations = <<>>
    THEN [out |-> ReturnNone, cm |-> chunk_metadata, fr |-> file_registry]
    ELSE LET meta == NewChunkMetadata(
                        [chunk_id |-> chunk_id,
                         version |-> 1,
                         locations |-> {locations[i] : i \in DOMAIN locations},
                         primary |-> locations[1],
                         lease_expiry |-> now + LEASE_TIMEOUT])
             file_meta == file_registry[filename]
         IN  IF meta.exc /= "none"
             THEN [out |-> Raised(meta.exc), cm |-> chunk_metadata, fr |-> file_registry]
             ELSE LET cm2 == (chunk_id :> meta.val) @@ chunk_metadata
                  IN  IF ~HasAttr(file_meta, "chunk_ids")
                      THEN [out |-> Raised("AttributeError"), cm |-> cm2, fr |-> file_registry]
                      ELSE [out |-> Outcome("none", "dict",
                                       [chunk_id |-> chunk_id,
                                        locations |-> locations,
                                        primary |-> locations[1],
                                        version |-> 1]),
                            cm |-> cm2,
                            fr |-> [file_registry EXCEPT ![filename] =
                                      [file_meta EXCEPT !.chunk_ids = Append(@, chunk_id)]]]

\* The rest of allocate_chunk_for_append once the chunk id and the locations
\* are drawn.
AllocateWith(filename, chunk_id, locations) ==
    LET r == AllocateResult(filename, chunk_id, locations)
    IN  /\ chunk_metadata' = r.cm
        /\ file_registry' = r.fr
        /\ ret' = Call("allocate_chunk_for_append", filename, 0, {}, r.out)
        /\ UNCHANGED <<now, chunkservers, last_heartbeat, chunks, log, calls, appended>>

allocate_chunk_for_append(filename) ==
    \E chunk_id \in AllocateChunk, locations \in SelectChunkservers(REPLICATION_FACTOR) :
        AllocateWith(filename, chunk_id, locations)

\* list[index] in Python: a negative index counts from the end.
ListIndex(list, index) ==
    IF 0 <= index /\ index < Len(list) THEN [exc |-> "none", val |-> list[index + 1]]
    ELSE IF index < 0 /\ -index <= Len(list)
    THEN [exc |-> "none", val |-> list[Len(list) + index + 1]]
    ELSE [exc |-> "IndexError", val |-> "None"]

\* list(a_set): the members in the order the iteration of the set gives, which
\* is the order they have in `order`, a sequence of all the chunkserver ids.
ListOf(set, order) == SelectSeq(order, LAMBDA x : x \in set)

Orders == {o \in [1..Cardinality(Nodes) -> Nodes] : \A i, j \in DOMAIN o : o[i] = o[j] => i = j}

GetChunkLocationsResult(filename, chunk_index, order) ==
    IF filename \notin DOMAIN file_registry THEN ReturnNone
    ELSE LET file_meta == file_registry[filename]
         IN  IF ~HasAttr(file_meta, "chunk_ids") THEN Raised("AttributeError")
             ELSE IF chunk_index >= Len(file_meta.chunk_ids) THEN ReturnNone
             ELSE LET at == ListIndex(file_meta.chunk_ids, chunk_index)
                  IN  IF at.exc /= "none" THEN Raised(at.exc)
                      ELSE IF at.val \notin DOMAIN chunk_metadata THEN Raised("KeyError")
                      ELSE LET chunk_meta == chunk_metadata[at.val]
                           IN  Outcome("none", "dict",
                                  [chunk_id |-> at.val,
                                   locations |-> ListOf(chunk_meta.locations, order),
                                   primary |-> chunk_meta.primary,
                                   version |-> chunk_meta.version])

get_chunk_locations(filename, chunk_index) ==
    /\ \E order \in Orders :
        ret' = Call("get_chunk_locations", filename, chunk_index, {},
                    GetChunkLocationsResult(filename, chunk_index, order))
    /\ UNCHANGED <<now, file_registry, chunk_metadata, chunkservers, last_heartbeat, chunks, log, calls, appended>>

GetFileInfoResult(filename) ==
    IF filename \notin DOMAIN file_registry THEN ReturnNone
    ELSE LET file_meta == file_registry[filename]
         IN  IF ~HasAttr(file_meta, "chunk_ids") THEN Raised("AttributeError")
             ELSE Outcome("none", "dict",
                     [filename |-> filename,
                      num_chunks |-> Len(file_meta.chunk_ids),
                      size |-> file_meta.size])

get_file_info(filename) ==
    /\ ret' = Call("get_file_info", filename, 0, {}, GetFileInfoResult(filename))
    /\ UNCHANGED <<now, file_registry, chunk_metadata, chunkservers, last_heartbeat, chunks, log, calls, appended>>

\* A sweep that measures the age against the lease timeout.
DeadServersByLease == {cs \in DOMAIN last_heartbeat : now - last_heartbeat[cs] > LEASE_TIMEOUT}

\* One pass of _monitor_chunkservers: the chunkservers it prints as dead.
DeadServers == {cs \in DOMAIN last_heartbeat : now - last_heartbeat[cs] > LivenessWindow}

monitor_chunkservers ==
    /\ ret' = Call("monitor_chunkservers", "", 0, DeadServers, ReturnNone)
    /\ UNCHANGED <<now, file_registry, chunk_metadata, chunkservers, last_heartbeat, chunks, log, calls, appended>>

---------------------------------------------------------------------------
(* chunkserver.py *)

Zeros(n) == [i \in 1..n |-> 0]

\* append_data that does not fill the gap: data past the end is added at the end.
AppendBytesNoFill(chunk, data, offset) ==
    IF offset >= Len(chunk)
    THEN chunk \o data
    ELSE SubSeq(chunk, 1, offset) \o data \o SubSeq(chunk, offset + Len(data) + 1, Len(chunk))

\* What append_data leaves in a buffer: the gap up to offset filled with zero
\* bytes, then data added at the end or written over the slice
\* chunk[offset:offset+len(data)].
AppendBytes(chunk, data, offset) ==
    LET filled == IF offset > Len(chunk) THEN chunk \o Zeros(offset - Len(chunk)) ELSE chunk
    IN  IF offset = Len(filled)
        THEN filled \o data
        ELSE SubSeq(filled, 1, offset) \o data
                \o SubSeq(filled, offset + Len(data) + 1, Len(filled))

\* What read_data returns of a buffer: chunk[offset:min(offset+length, len(chunk))].
ReadBytes(chunk, offset, length) ==
    SubSeq(chunk, offset + 1, Min(offset + length, Len(chunk)))

\* The chunkservers' buffers with their histories, as one value: log says, of
\* each buffer, the append_data calls it took since its latest create_chunk and
\* whether that create_chunk replaced a buffer that held bytes; calls lists the
\* calls made on the value.
Store == [chunks |-> chunks, log |-> log, calls |-> <<>>]

\* create_chunk that keeps the buffer of a chunk it already has.
CreateChunkKeeps(st, n, chunk_id) ==
    [chunks |-> [st.chunks EXCEPT ![n] = @ @@ (chunk_id :> <<>>)],
     log |-> [st.log EXCEPT ![n] = (chunk_id :> [since |-> <<>>, dropped |-> FALSE]) @@ @],
     calls |-> Append(st.calls, [op |-> "create_chunk", cs |-> n, id |-> chunk_id, ok |-> TRUE])]

\* create_chunk on chunkserver n: self.chunks[chunk_id] = bytearray().
CreateChunkIn(st, n, chunk_id) ==
    [chunks |-> [st.chunks EXCEPT ![n] = (chunk_id :> <<>>) @@ @],
     log |-> [st.log EXCEPT ![n] =
                (chunk_id :> [since |-> <<>>,
                              dropped |-> chunk_id \in DOMAIN st.chunks[n]
                                            /\ st.chunks[n][chunk_id] /= <<>>]) @@ @],
     calls |-> Append(st.calls, [op |-> "create_chunk", cs |-> n, id |-> chunk_id, ok |-> TRUE])]

\* append_data on chunkserver n: whether it returned True, and the store it leaves.
AppendDataIn(st, n, chunk_id, data, offset) ==
    IF chunk_id \notin DOMAIN st.chunks[n]
    THEN [ok |-> FALSE,
          st |-> [st EXCEPT !.calls =
                    Append(@, [op |-> "append_data", cs |-> n, id |-> chunk_id, ok |-> FALSE])]]
    ELSE [ok |-> TRUE,
          st |-> [chunks |-> [st.chunks EXCEPT ![n][chunk_id] = AppendBytes(@, data, offset)],
                  log |-> [st.log EXCEPT ![n][chunk_id].since =
                              Append(@, [data |-> data, offset |-> offset])],
                  calls |-> Append(st.calls,
                              [op |-> "append_data", cs |-> n, id |-> chunk_id, ok |-> TRUE])]]

\* read_data on chunkserver n.
ReadDataIn(st, n, chunk_id, offset, length) ==
    IF chunk_id \notin DOMAIN st.chunks[n]
    THEN ReturnNone
    ELSE Outcome("none", "bytes", ReadBytes(st.chunks[n][chunk_id], offset, length))

\* GFSChunkserver(chunkserver_id, master): an empty chunk map, registered with
\* the master with an empty chunk list, its heartbeat thread started.
NewChunkserver(chunkserver_id) ==
    /\ chunkserver_id \notin DOMAIN chunks
    /\ monitoring_active' = (chunkserver_id :> TRUE) @@ monitoring_active
    /\ hb_thread' = (chunkserver_id :> "check") @@ hb_thread
    /\ chunks' = (chunkserver_id :> EmptyMap) @@ chunks
    /\ log' = (chunkserver_id :> EmptyMap) @@ log
    /\ RegisterEffect(chunkserver_id, {})
    /\ ret' = Call("GFSChunkserver", chunkserver_id, 0, {}, ReturnNone)
    /\ UNCHANGED <<now, file_registry, calls, appended>>

create_chunk(n, chunk_id) ==
    /\ n \in DOMAIN chunks
    /\ chunks' = CreateChunkIn(Store, n, chunk_id).chunks
    /\ log' = CreateChunkIn(Store, n, chunk_id).log
    /\ ret' = Call("create_chunk", n, 0, {chunk_id}, ReturnNone)
    /\ UNCHANGED <<now, file_registry, chunk_metadata, chunkservers, last_heartbeat, calls, appended>>

append_data(n, chunk_id, data, offset) ==
    /\ n \in DOMAIN chunks
    /\ chunk_id \in DOMAIN chunks[n] => Len(log[n][chunk_id].since) < MaxLog
    /\ LET r == AppendDataIn(Store, n, chunk_id, data, offset)
       IN  /\ chunks' = r.st.chunks
           /\ log' = r.st.log
           /\ ret' = Call("append_data", n, offset, {chunk_id}, ReturnBool(r.ok))
    /\ UNCHANGED <<now, file_registry, chunk_metadata, chunkservers, last_heartbeat, calls, appended>>

read_data(n, chunk_id, offset, length) ==
    /\ n \in DOMAIN chunks
    /\ ret' = Call("read_data", n, offset, {chunk_id},
                   ReadDataIn(Store, n, chunk_id, offset, length))
    /\ UNCHANGED <<now, file_registry, chunk_metadata, chunkservers, last_heartbeat, chunks, log, calls, appended>>

---------------------------------------------------------------------------
(* client.py.  A client is the master and a dict of chunkservers, `reach`:    *)
(* the ids it can call.  Its calls to the master take the master's lock one   *)
(* at a time; what follows a call to the master that raised is never run.     *)

\* The first loop of append: create_chunk on locations[i..] that are in the dict.
RECURSIVE CreateOnAll(_, _, _, _, _)
CreateOnAll(st, locations, i, reach, chunk_handle) ==
    IF i > Len(locations) THEN st
    ELSE CreateOnAll(
            IF locations[i] \in reach THEN CreateChunkIn(st, locations[i], chunk_handle) ELSE st,
            locations, i + 1, reach, chunk_handle)

\* The last loop of append: append_data on every location but the primary, its
\* result dropped.
RECURSIVE AppendOnSecondaries(_, _, _, _, _, _, _)
AppendOnSecondaries(st, locations, i, reach, primary_id, chunk_handle, data) ==
    IF i > Len(locations) THEN st
    ELSE AppendOnSecondaries(
            IF locations[i] /= primary_id /\ locations[i] \in reach
            THEN AppendDataIn(st, locations[i], chunk_handle, data, 0).st
            ELSE st,
            locations, i + 1, reach, primary_id, chunk_handle, data)

\* GFSClient.append with what the master drew: its outcome and the state it leaves.
ClientAppendResult(filename, data, reach, chunk_id, locations) ==
    LET a == AllocateResult(filename, chunk_id, locations)
        chunk_info == a.out.val
    IN  IF a.out.exc /= "none"
        THEN [out |-> a.out, cm |-> a.cm, fr |-> a.fr, st |-> Store]
        ELSE IF a.out.kind = "None"
        THEN [out |-> ReturnBool(FALSE), cm |-> a.cm, fr |-> a.fr, st |-> Store]
        ELSE IF "chunk_handle" \notin DOMAIN chunk_info
        THEN [out |-> Raised("KeyError"), cm |-> a.cm, fr |-> a.fr, st |-> Store]
        ELSE LET created == CreateOnAll(Store, chunk_info.locations, 1, reach,
                                        chunk_info.chunk_handle)
                 p == AppendDataIn(created, chunk_info.primary, chunk_info.chunk_handle, data, 0)
             IN  IF chunk_info.primary \notin reach
                 THEN [out |-> ReturnBool(FALSE), cm |-> a.cm, fr |-> a.fr, st |-> created]
                 ELSE IF ~p.ok
                 THEN [out |-> ReturnBool(FALSE), cm |-> a.cm, fr |-> a.fr, st |-> p.st]
                 ELSE [out |-> ReturnBool(TRUE), cm |-> a.cm, fr |-> a.fr,
                       st |-> AppendOnSecondaries(p.st, chunk_info.locations, 1, reach,
                                  chunk_info.primary, chunk_info.chunk_handle, data)]

\* The replica loop of read: the data of the first of locations[i..] that is in
\* the dict and returns data that is not empty, else nothing.
RECURSIVE FirstData(_, _, _, _)
FirstData(locations, i, reach, chunk_handle) ==
    IF i > Len(locations) THEN <<>>
    ELSE LET d == IF locations[i] \in reach
                  THEN ReadDataIn(Store, locations[i], chunk_handle, 0, CHUNK_SIZE)
                  ELSE ReturnNone
         IN  IF d.kind = "bytes" /\ d.val /= <<>>
             THEN d.val
             ELSE FirstData(locations, i + 1, reach, chunk_handle)

\* The chunk loop of read from chunk_idx on, result being what is read so far.
RECURSIVE ReadChunks(_, _, _, _, _, _)
ReadChunks(filename, chunk_idx, num_chunks, reach, order, result) ==
    IF chunk_idx >= num_chunks THEN Outcome("none", "bytes", result)
    ELSE LET chunk_info == GetChunkLocationsResult(filename, chunk_idx, order)
         IN  IF chunk_info.exc /= "none" THEN chunk_info
             ELSE IF chunk_info.kind = "None"
             THEN ReadChunks(filename, chunk_idx + 1, num_chunks, reach, order, result)
             ELSE IF "chunk_handle" \notin DOMAIN chunk_info.val THEN Raised("KeyError")
             ELSE ReadChunks(filename, chunk_idx + 1, num_chunks, reach, order,
                     result \o FirstData(chunk_info.val.locations, 1, reach,
                                         chunk_info.val.chunk_handle))

\* GFSClient.read
ClientReadResult(filename, reach, order) ==
    LET file_info == GetFileInfoResult(filename)
    IN  IF file_info.exc /= "none" THEN file_info
        ELSE IF file_info.kind = "None" THEN ReturnNone
        ELSE ReadChunks(filename, 0, file_info.val.num_chunks, reach, order, <<>>)

client_create(filename) ==
    /\ file_registry' = CreateFileResult(filename).fr
    /\ ret' = Call("client_create", filename, 0, {}, CreateFileResult(filename).out)
    /\ UNCHANGED <<now, chunk_metadata, chunkservers, last_heartbeat, chunks, log, calls, appended>>

client_append(filename, data, reach) ==
    \E chunk_id \in AllocateChunk, locations \in SelectChunkservers(REPLICATION_FACTOR) :
        LET r == ClientAppendResult(filename, data, reach, chunk_id, locations)
        IN  /\ chunk_metadata' = r.cm
            /\ file_registry' = r.fr
            /\ chunks' = r.st.chunks
            /\ log' = r.st.log
            /\ calls' = r.st.calls
            /\ appended' = IF r.out.kind = "bool" /\ r.out.val
                           THEN [appended EXCEPT ![filename] = Append(@, data)]
                           ELSE appended
            /\ ret' = Call("client_append", filename, Len(data), reach, r.out)
            /\ UNCHANGED <<now, chunkservers, last_heartbeat>>

client_read(filename, reach) ==
    /\ \E order \in Orders :
        ret' = Call("client_read", filename, 0, reach, ClientReadResult(filename, reach, order))
    /\ UNCHANGED <<now, file_registry, chunk_metadata, chunkservers, last_heartbeat, chunks, log, calls, appended>>

---------------------------------------------------------------------------
(* The specifications *)

\* The master, the chunkservers' heartbeats and the clients.
Next ==
    \/ Tick /\ UNCHANGED threadvars
    \/ \E n \in Nodes : NewChunkserver(n) /\ UNCHANGED <<lock, caller>>
    \/ \E n \in Nodes, reported \in Reported : register_chunkserver(n, reported) /\ UNCHANGED threadvars
    \/ \E n \in Nodes : heartbeat(n) /\ UNCHANGED threadvars
    \/ \E f \in Files : create_file(f) /\ UNCHANGED threadvars
    \/ \E f \in Files : allocate_chunk_for_append(f) /\ UNCHANGED threadvars
    \/ \E f \in Files, i \in Indexes : get_chunk_locations(f, i) /\ UNCHANGED threadvars
    \/ \E f \in Files : get_file_info(f) /\ UNCHANGED threadvars
    \/ monitor_chunkservers /\ UNCHANGED threadvars
    \/ \E f \in Files : client_create(f) /\ UNCHANGED threadvars
    \/ \E f \in Files, d \in Data, reach \in SUBSET (DOMAIN chunks) : client_append(f, d, reach) /\ UNCHANGED threadvars
    \/ \E f \in Files, reach \in SUBSET (DOMAIN chunks) : client_read(f, reach) /\ UNCHANGED threadvars

Spec == Init /\ [][Next]_vars

\* One chunkserver, called directly.
StoreNode == "cs1"

InitStore ==
    /\ now = 0
    /\ file_registry = EmptyMap
    /\ chunk_metadata = EmptyMap
    /\ chunkservers = (StoreNode :> [id |-> StoreNode, chunks |-> {}])
    /\ last_heartbeat = (StoreNode :> 0)
    /\ chunks = (StoreNode :> EmptyMap)
    /\ log = (StoreNode :> EmptyMap)
    /\ calls = <<>>
    /\ appended = [f \in Files |-> <<>>]
    /\ ret = Call("GFSChunkserver", StoreNode, 0, {}, ReturnNone)
    /\ lock = "free"
    /\ caller = [t \in Threads |-> Idle]
    /\ monitoring_active = (StoreNode :> TRUE)
    /\ hb_thread = (StoreNode :> "check")

NextStore ==
    \/ \E n \in Nodes, c \in ChunkIds : create_chunk(n, c) /\ UNCHANGED threadvars
    \/ \E n \in Nodes, c \in ChunkIds, d \in Data, o \in Offsets : append_data(n, c, d, o) /\ UNCHANGED threadvars
    \/ \E n \in Nodes, c \in ChunkIds, o \in Offsets, l \in Lengths : read_data(n, c, o, l) /\ UNCHANGED threadvars

SpecStore == InitStore /\ [][NextStore]_vars

---------------------------------------------------------------------------
(* The master's lock: every method of the master runs `with self.lock` *)

\* A lock any thread can take at any time.
AcquirableAlways(t) == TRUE

\* threading.RLock: a thread takes it when no other thread holds it.
Acquirable(t) == lock \in {"free", t}

\* The methods of the master that threads call, with the name each is given.
MasterCalls ==
    ({"register_chunkserver", "heartbeat"} \X Nodes)
        \cup ({"create_file", "allocate_chunk_for_append", "get_chunk_locations",
               "get_file_info"} \X Files)
        \cup {<<"monitor_chunkservers", "">>}

\* Thread t calls a method and enters its `with self.lock`.
Acquire(t, op, name) ==
    /\ caller[t].stage = "idle"
    /\ Acquirable(t)
    /\ lock' = t
    /\ caller' = [caller EXCEPT ![t] = [Idle EXCEPT !.stage = "in", !.op = op, !.name = name]]
    /\ UNCHANGED <<now, file_registry, chunk_metadata, chunkservers, last_heartbeat, chunks,
                   ret, log, calls, appended, monitoring_active, hb_thread>>

\* Thread t is inside the `with self.lock` of op, its body not yet run.
Inside(t, op) == caller[t].stage = "in" /\ caller[t].op = op

\* The body of t's method has run; t has yet to leave the `with`.
BodyDone(t) ==
    /\ caller' = [caller EXCEPT ![t].stage = "out"]
    /\ UNCHANGED <<lock, monitoring_active, hb_thread>>

LockedRegister(t) ==
    /\ Inside(t, "register_chunkserver")
    /\ \E reported \in Reported : register_chunkserver(caller[t].name, reported)
    /\ BodyDone(t)

LockedHeartbeat(t) ==
    /\ Inside(t, "heartbeat")
    /\ heartbeat(caller[t].name)
    /\ BodyDone(t)

LockedCreateFile(t) ==
    /\ Inside(t, "create_file")
    /\ create_file(caller[t].name)
    /\ BodyDone(t)

\* allocate_chunk_for_append up to the selection of the locations: the chunk id
\* and the locations are locals of the call.
LockedSelect(t) ==
    /\ Inside(t, "allocate_chunk_for_append")
    /\ \E chunk_id \in AllocateChunk, locations \in SelectChunkservers(REPLICATION_FACTOR) :
          caller' = [caller EXCEPT ![t].stage = "selected",
                                   ![t].chunk_id = chunk_id,
                                   ![t].locations = locations]
    /\ UNCHANGED <<now, file_registry, chunk_metadata, chunkservers, last_heartbeat, chunks,
                   ret, log, calls, appended, lock, monitoring_active, hb_thread>>

\* allocate_chunk_for_append from the selection on.
LockedAllocate(t) ==
    /\ caller[t].stage = "selected"
    /\ AllocateWith(caller[t].name, caller[t].chunk_id, caller[t].locations)
    /\ BodyDone(t)

LockedGetChunkLocations(t) ==
    /\ Inside(t, "get_chunk_locations")
    /\ \E i \in Indexes : get_chunk_locations(caller[t].name, i)
    /\ BodyDone(t)

LockedGetFileInfo(t) ==
    /\ Inside(t, "get_file_info")
    /\ get_file_info(caller[t].name)
    /\ BodyDone(t)

LockedMonitor(t) ==
    /\ Inside(t, "monitor_chunkservers")
    /\ monitor_chunkservers
    /\ BodyDone(t)

\* Thread t leaves the `with self.lock`, by a return or by an exception.
Release(t) ==
    /\ caller[t].stage = "out"
    /\ lock' = "free"
    /\ caller' = [caller EXCEPT ![t] = Idle]
    /\ UNCHANGED <<now, file_registry, chunk_metadata, chunkservers, last_heartbeat, chunks,
                   ret, log, calls, appended, monitoring_active, hb_thread>>

NextLock ==
    \/ \E t \in Threads, call \in MasterCalls : Acquire(t, call[1], call[2])
    \/ \E t \in Threads : LockedRegister(t)
    \/ \E t \in Threads : LockedHeartbeat(t)
    \/ \E t \in Threads : LockedCreateFile(t)
    \/ \E t \in Threads : LockedSelect(t)
    \/ \E t \in Threads : LockedAllocate(t)
    \/ \E t \in Threads : LockedGetChunkLocations(t)
    \/ \E t \in Threads : LockedGetFileInfo(t)
    \/ \E t \in Threads : LockedMonitor(t)
    \/ \E t \in Threads : Release(t)

\* Threads calling the master at the same time.
SpecLock == Init /\ [][NextLock]_vars

---------------------------------------------------------------------------
(* The heartbeat threads of the chunkservers and the sweep of the master *)

Max(a, b) == IF a > b THEN a ELSE b

\* Time passes.  Past MaxTime the origin of the clock moves instead of the
\* clock: the times of the last heartbeats go back by the same amount, an age
\* beyond the window kept as one second beyond it.
TickLive ==
    /\ \E d \in TickSteps :
          IF now + d <= MaxTime
          THEN now' = now + d /\ last_heartbeat' = last_heartbeat
          ELSE /\ now' = now
               /\ last_heartbeat' =
                     [cs \in DOMAIN last_heartbeat |->
                         Max(last_heartbeat[cs] - d, now - (LivenessWindow + 1))]
    /\ ret' = Call("tick", "", 0, {}, ReturnNone)
    /\ UNCHANGED <<file_registry, chunk_metadata, chunkservers, chunks, log, calls, appended>>

\* _send_heartbeats: the test of the loop.
SendHeartbeatsTest(n) ==
    /\ n \in DOMAIN hb_thread
    /\ hb_thread[n] = "check"
    /\ hb_thread' = [hb_thread EXCEPT ![n] = IF monitoring_active[n] THEN "send" ELSE "done"]
    /\ UNCHANGED <<now, file_registry, chunk_metadata, chunkservers, last_heartbeat, chunks,
                   ret, log, calls, appended, lock, caller, monitoring_active>>

\* _send_heartbeats: the body of the loop, master.heartbeat and the sleep.
SendHeartbeatsBody(n) ==
    /\ n \in DOMAIN hb_thread
    /\ hb_thread[n] = "send"
    /\ heartbeat(n)
    /\ hb_thread' = [hb_thread EXCEPT ![n] = "check"]
    /\ UNCHANGED <<lock, caller, monitoring_active>>

\* GFSChunkserver.shutdown
shutdown(n) ==
    /\ n \in DOMAIN monitoring_active
    /\ monitoring_active' = [monitoring_active EXCEPT ![n] = FALSE]
    /\ ret' = Call("shutdown", n, 0, {}, ReturnNone)
    /\ UNCHANGED <<now, file_registry, chunk_metadata, chunkservers, last_heartbeat, chunks,
                   log, calls, appended, lock, caller, hb_thread>>

NextLive ==
    \/ TickLive /\ UNCHANGED threadvars
    \/ \E n \in Nodes : NewChunkserver(n) /\ UNCHANGED <<lock, caller>>
    \/ \E n \in Nodes : SendHeartbeatsTest(n)
    \/ \E n \in Nodes : SendHeartbeatsBody(n)
    \/ \E n \in Nodes : shutdown(n)
    \/ \E f \in Files : create_file(f) /\ UNCHANGED threadvars
    \/ \E f \in Files : allocate_chunk_for_append(f) /\ UNCHANGED threadvars
    \/ monitor_chunkservers /\ UNCHANGED threadvars

\* The chunkservers heartbeat from their threads until they are shut down; time
\* goes on and the master's monitor thread keeps sweeping.
SpecLive ==
    /\ Init
    /\ [][NextLive]_vars
    /\ WF_vars(TickLive /\ UNCHANGED threadvars)
    /\ WF_vars(monitor_chunkservers /\ UNCHANGED threadvars)

---------------------------------------------------------------------------
(* The claims *)

\* The chunkservers that heartbeated within the window, registered or not.
HeartbeatedInWindow ==
    {cs \in DOMAIN last_heartbeat : now - last_heartbeat[cs] < LivenessWindow}

\* The chunk sequence of a file.
ChunkSequence(f) == file_registry[f].chunk_handles

RECURSIVE Concat(_)
Concat(seqs) == IF seqs = <<>> THEN <<>> ELSE Head(seqs) \o Concat(Tail(seqs))

\* C3: an allocation for a name that is not in the namespace, or made when no
\* chunkserver has heartbeated within the window, returns None, and it leaves
\* the chunk table and every file's record as they were.
C3_AllocateFailsUnchanged ==
    [][(/\ ret'.op = "allocate_chunk_for_append"
        /\ (ret'.name \notin DOMAIN file_registry \/ HeartbeatedInWindow = {}))
       => (/\ ret'.kind = "None"
           /\ chunk_metadata' = chunk_metadata
           /\ file_registry' = file_registry)]_vars

\* An allocation was refused for a file of the namespace, with chunkservers
\* registered and none of them heard of within the window.
C3_Witness ==
    /\ ret.op = "allocate_chunk_for_append"
    /\ ret.kind = "None"
    /\ ret.name \in DOMAIN file_registry
    /\ chunkservers /= EmptyMap
    /\ HeartbeatedInWindow = {}

\* C4: create of a name already in the namespace returns False and changes
\* nothing; create of a new name returns True and adds a record with an empty
\* chunk sequence, everything else staying as it was.  The same through the client.
C4_CreateFile ==
    [][ret'.op \in {"create_file", "client_create"}
       => /\ ret'.kind = "bool"
          /\ UNCHANGED <<now, chunk_metadata, chunkservers, last_heartbeat, chunks>>
          /\ IF ret'.name \in DOMAIN file_registry
             THEN ret'.val = FALSE /\ file_registry' = file_registry
             ELSE /\ ret'.val = TRUE
                  /\ DOMAIN file_registry' = DOMAIN file_registry \cup {ret'.name}
                  /\ \A g \in DOMAIN file_registry : file_registry'[g] = file_registry[g]
                  /\ file_registry'[ret'.name].filename = ret'.name
                  /\ file_registry'[ret'.name].chunk_handles = <<>>]_vars

\* A create was refused, for a name that is in the namespace, with another
\* file beside it.
C4_Witness ==
    /\ ret.op = "create_file"
    /\ ret.kind = "bool"
    /\ ret.val = FALSE
    /\ ret.name \in DOMAIN file_registry
    /\ DOMAIN file_registry = Files

\* The buffer that the append_data calls of a history build from an empty one.
RECURSIVE Replay(_)
Replay(history) ==
    IF history = <<>> THEN <<>>
    ELSE AppendBytes(Replay(SubSeq(history, 1, Len(history) - 1)),
                     history[Len(history)].data, history[Len(history)].offset)

\* C10: create_chunk leaves the chunk with an empty buffer whatever it held,
\* and every buffer is what the append_data calls made since its latest
\* create_chunk build from an empty buffer.
C10_CreateChunkResets ==
    /\ ret.op = "create_chunk" => \A c \in ret.with : chunks[ret.name][c] = <<>>
    /\ \A n \in DOMAIN chunks : \A c \in DOMAIN chunks[n] :
          chunks[n][c] = Replay(log[n][c].since)

\* A buffer that held bytes was created again and has taken an append since.
C10_Witness ==
    \E n \in DOMAIN chunks : \E c \in DOMAIN chunks[n] :
        /\ log[n][c].dropped
        /\ Len(log[n][c].since) >= 1
        /\ ret.op = "append_data" /\ ret.name = n /\ ret.with = {c}

\* A client append that the master can place and the client can deliver: the
\* file is in the namespace, a chunkserver is available, and the client
\* reaches every available chunkserver.
ClientServed ==
    /\ ret.op = "client_append"
    /\ ret.name \in DOMAIN file_registry
    /\ Available /= {}
    /\ Available \subseteq ret.with

Range(seq) == {seq[i] : i \in DOMAIN seq}

\* C1: appends to a created file by a client that reaches the chunkservers
\* report success, the file has a chunk for each of them, and a read then
\* returns their data concatenated in the order of the appends.
C1_AppendsThenRead ==
    /\ ClientServed => ret.kind = "bool" /\ ret.val = TRUE
    /\ \A f \in DOMAIN file_registry : Len(ChunkSequence(f)) >= Len(appended[f])
    /\ (/\ ret.op = "client_read"
        /\ ret.name \in DOMAIN file_registry
        /\ appended[ret.name] /= <<>>
        /\ DOMAIN chunks \subseteq ret.with)
       => ret.kind = "bytes" /\ ret.val = Concat(appended[ret.name])

\* C2: an allocation for a file of the namespace made while chunkservers are
\* available returns locations without duplicates, all of them available,
\* min(REPLICATION_FACTOR, number available) of them, and a primary among them.
C2_AllocationPlacement ==
    (/\ ret.op = "allocate_chunk_for_append"
     /\ ret.name \in DOMAIN file_registry
     /\ Available /= {})
    => /\ ret.kind = "dict"
       /\ ret.val.primary \in Range(ret.val.locations)
       /\ Cardinality(Range(ret.val.locations)) = Len(ret.val.locations)
       /\ Range(ret.val.locations) \subseteq Available
       /\ Len(ret.val.locations) = Min(REPLICATION_FACTOR, Cardinality(Available))

\* C5: a client append that can be served calls create_chunk on every location,
\* then append_data on the primary, then append_data on the others; when the
\* primary's append_data fails the append returns False and no other
\* append_data follows.  No client append calls append_data twice after
\* returning False.
C5_CreateBeforeAppend ==
    /\ ClientServed =>
        /\ calls /= <<>>
        /\ LET meta == chunk_metadata[calls[1].id]
               k == Cardinality(meta.locations)
           IN  /\ Len(calls) >= k + 1
               /\ \A i \in 1..k : calls[i].op = "create_chunk"
               /\ {calls[i].cs : i \in 1..k} = meta.locations
               /\ calls[k + 1].op = "append_data" /\ calls[k + 1].cs = meta.primary
               /\ \A i \in (k + 2)..Len(calls) :
                     calls[i].op = "append_data" /\ calls[i].cs /= meta.primary
               /\ ~calls[k + 1].ok => Len(calls) = k + 1 /\ ret.val = FALSE
    /\ (ret.op = "client_append" /\ ret.kind = "bool" /\ ~ret.val)
       => Cardinality({i \in DOMAIN calls : calls[i].op = "append_data"}) <= 1

\* The primary of the chunk took an append_data that returned True.
PrimaryAppended ==
    \E i \in DOMAIN calls :
        /\ calls[i].op = "append_data"
        /\ calls[i].ok
        /\ calls[i].id \in DOMAIN chunk_metadata
        /\ calls[i].cs = chunk_metadata[calls[i].id].primary

\* C6: a client append returns True or False, and True exactly when the
\* allocation succeeded and the primary's append_data returned True, whatever
\* the other chunkservers answered.
C6_AppendResult ==
    ret.op = "client_append"
    => /\ ret.kind = "bool"
       /\ ret.val <=> PrimaryAppended

\* The data read for a chunk: that of the first of its locations the client
\* reaches that holds bytes for it, nothing when there is none.
FirstNonEmpty(locations, reach, chunk_id) ==
    LET good == {i \in DOMAIN locations :
                    /\ locations[i] \in reach
                    /\ chunk_id \in DOMAIN chunks[locations[i]]
                    /\ chunks[locations[i]][chunk_id] /= <<>>}
    IN  IF good = {} THEN <<>>
        ELSE chunks[locations[CHOOSE i \in good : \A j \in good : i <= j]][chunk_id]

ExpectedRead(f, reach, order) ==
    Concat([i \in 1..Len(ChunkSequence(f)) |->
              FirstNonEmpty(ListOf(chunk_metadata[ChunkSequence(f)[i]].locations, order),
                            reach, ChunkSequence(f)[i])])

\* C7: a read of a file of the namespace returns bytes whatever the replicas
\* hold: chunk after chunk, the data of the first location that the client
\* reaches and that holds bytes, and nothing for a chunk without one.
C7_ReadFallsBack ==
    (ret.op = "client_read" /\ ret.name \in DOMAIN file_registry)
    => /\ ret.kind = "bytes"
       /\ \E order \in Orders : ret.val = ExpectedRead(ret.name, ret.with, order)

\* C8: a read of a name that is not in the namespace returns None, and a read
\* of a file without chunks returns the empty byte string.
C8_ReadNotFound ==
    ret.op = "client_read"
    => IF ret.name \notin DOMAIN file_registry
       THEN ret.kind = "None"
       ELSE ChunkSequence(ret.name) = <<>> => ret.kind = "bytes" /\ ret.val = <<>>

\* C9: get_chunk_locations returns None for a name that is not in the
\* namespace and for an index outside 0 .. len - 1, a negative one included,
\* and for an index inside it the id, locations, primary and version of the
\* chunk at that place of the chunk sequence.
C9_GetChunkLocations ==
    ret.op = "get_chunk_locations"
    => IF \/ ret.name \notin DOMAIN file_registry
          \/ ret.arg < 0
          \/ ret.arg >= Len(ChunkSequence(ret.name))
       THEN ret.kind = "None"
       ELSE /\ ret.kind = "dict"
            /\ ret.val.chunk_id = ChunkSequence(ret.name)[ret.arg + 1]
            /\ Range(ret.val.locations) = chunk_metadata[ret.val.chunk_id].locations
            /\ ret.val.primary = chunk_metadata[ret.val.chunk_id].primary
            /\ ret.val.version = chunk_metadata[ret.val.chunk_id].version

\* The length of the buffer a history of append_data calls builds, and its byte
\* at position i (from 0): that of the latest call that wrote there, zero where
\* none did.
RECURSIVE WrittenLen(_)
WrittenLen(history) ==
    IF history = <<>> THEN 0
    ELSE LET last == history[Len(history)]
             before == WrittenLen(SubSeq(history, 1, Len(history) - 1))
         IN  IF last.offset + Len(last.data) > before
             THEN last.offset + Len(last.data) ELSE before

RECURSIVE ByteAt(_, _)
ByteAt(history, i) ==
    IF history = <<>> THEN 0
    ELSE LET last == history[Len(history)]
         IN  IF last.offset <= i /\ i < last.offset + Len(last.data)
             THEN last.data[i - last.offset + 1]
             ELSE ByteAt(SubSeq(history, 1, Len(history) - 1), i)

ExpectedBuffer(history) == [i \in 1..WrittenLen(history) |-> ByteAt(history, i - 1)]

\* C11: append_data past the end of a buffer fills the gap with zero bytes and
\* puts the data at the offset, the bytes below staying; read_data returns the
\* bytes of the range asked, zero in a gap; append_data on a chunk the
\* chunkserver does not have returns False and changes no buffer.
C11_ZeroFill ==
    /\ [](\A n \in DOMAIN chunks : \A c \in DOMAIN chunks[n] :
            chunks[n][c] = ExpectedBuffer(log[n][c].since))
    /\ [][ret'.op = "append_data" =>
            \A c \in ret'.with :
                IF c \in DOMAIN chunks[ret'.name]
                THEN LET old == chunks[ret'.name][c]
                         new == chunks'[ret'.name][c]
                         call == log'[ret'.name][c].since[Len(log'[ret'.name][c].since)]
                     IN  /\ ret'.val = TRUE
                         /\ call.offset = ret'.arg
                         /\ \A i \in 1..Len(old) :
                               i <= call.offset => new[i] = old[i]
                         /\ \A i \in (Len(old) + 1)..call.offset : new[i] = 0
                         /\ \A i \in 1..Len(call.data) : new[call.offset + i] = call.data[i]
                ELSE ret'.val = FALSE /\ chunks' = chunks]_vars
    /\ [][ret'.op = "read_data" =>
            \A c \in ret'.with :
                IF c \in DOMAIN chunks[ret'.name]
                THEN /\ ret'.kind = "bytes"
                     /\ \E l \in Lengths :
                           LET end == Min(ret'.arg + l, Len(chunks[ret'.name][c]))
                           IN  ret'.val = [j \in 1..(end - ret'.arg) |->
                                             ByteAt(log[ret'.name][c].since, ret'.arg + j - 1)]
                ELSE ret'.kind = "None"]_vars

\* A read returned zero bytes of a gap followed by bytes that were written.
C11_Witness ==
    /\ ret.op = "read_data"
    /\ ret.kind = "bytes"
    /\ Len(ret.val) >= 2
    /\ ret.val[1] = 0
    /\ ret.val[Len(ret.val)] /= 0

\* C12: every allocation for a file of the namespace with an available
\* chunkserver adds one chunk id, not handed out before, at the end of the file's
\* chunk sequence, and no step reorders or removes what a sequence holds.
C12_AllocationsAppendInOrder ==
    /\ [][\A f \in DOMAIN file_registry :
            /\ f \in DOMAIN file_registry'
            /\ Len(ChunkSequence(f)) <= Len(file_registry'[f].chunk_handles)
            /\ ChunkSequence(f) =
                  SubSeq(file_registry'[f].chunk_handles, 1, Len(ChunkSequence(f)))]_vars
    /\ [][(/\ ret'.op = "allocate_chunk_for_append"
           /\ ret'.name \in DOMAIN file_registry
           /\ Available /= {})
          => \E c \in ChunkIds :
                /\ c \notin DOMAIN chunk_metadata
                /\ c \in DOMAIN chunk_metadata'
                /\ file_registry'[ret'.name].chunk_handles
                      = Append(ChunkSequence(ret'.name), c)
                /\ \A g \in DOMAIN file_registry \ {ret'.name} :
                      file_registry'[g] = file_registry[g]]_vars

C17_SameThreshold ==
    \A cs \in DOMAIN chunkservers : cs \notin Available <=> cs \in DeadServers

\* C18 as stated: heartbeat sets the time of the chunkserver's last heartbeat,
\* registered or not, and the chunkserver then counts for placement as a
\* registered one heard from within the window does.
C18_HeartbeatMakesEligible ==
    [][ret'.op = "heartbeat" =>
          /\ last_heartbeat' = (ret'.name :> now) @@ last_heartbeat
          /\ ret'.name \in Available']_vars

\* C18, amended: heartbeat sets the time of the chunkserver's last heartbeat,
\* registered or not, and enters nothing in the registry of chunkservers; the
\* chunkserver counts for placement only if it is registered, and placement
\* never selects a chunkserver that is not.
C18_HeartbeatRecordsOnly ==
    /\ [][ret'.op = "heartbeat" =>
            /\ last_heartbeat' = (ret'.name :> now) @@ last_heartbeat
            /\ chunkservers' = chunkservers
            /\ ret'.name \in Available' <=> ret'.name \in DOMAIN chunkservers]_vars
    /\ [](\A locations \in SelectChunkservers(REPLICATION_FACTOR) :
            \A i \in DOMAIN locations : locations[i] \in DOMAIN chunkservers)

\* A chunkserver that never registered has sent a heartbeat.
C18_Witness ==
    /\ ret.op = "heartbeat"
    /\ ret.name \notin DOMAIN chunkservers
    /\ ret.name \in DOMAIN last_heartbeat
    /\ last_heartbeat[ret.name] = now

\* C19: an append through a client that reaches none of the available
\* chunkservers, for a file of the namespace, returns False and leaves the
\* chunk it was allocated in the file's chunk sequence and in the chunk table.
C19_FailedAppendKeepsChunk ==
    [][(/\ ret'.op = "client_append"
        /\ ret'.name \in DOMAIN file_registry
        /\ Available /= {}
        /\ Available \cap ret'.with = {})
       => /\ ret'.kind = "bool"
          /\ ret'.val = FALSE
          /\ \E c \in ChunkIds :
                /\ c \notin DOMAIN chunk_metadata
                /\ c \in DOMAIN chunk_metadata'
                /\ file_registry'[ret'.name].chunk_handles
                      = Append(ChunkSequence(ret'.name), c)]_vars

\* C20: after an append of d that a client reaching every available chunkserver
\* made to a file of the namespace, the append returned True, every location of
\* the chunk holds a buffer equal to d and no other chunkserver holds the chunk.
C20_ReplicasHoldData ==
    ClientServed =>
        /\ ret.kind = "bool"
        /\ ret.val = TRUE
        /\ appended[ret.name] /= <<>>
        /\ \E c \in DOMAIN chunk_metadata :
              \A cs \in DOMAIN chunks :
                  IF cs \in chunk_metadata[c].locations
                  THEN /\ c \in DOMAIN chunks[cs]
                       /\ chunks[cs][c] = appended[ret.name][Len(appended[ret.name])]
                  ELSE c \notin DOMAIN chunks[cs]

\* The threads that are inside a method of the master.
InProgress == {t \in Threads : caller[t].stage /= "idle"}

\* C15: at most one thread is inside a method of the master, and it holds the
\* lock; the master's tables change, and a call's outcome is produced, only in
\* a step of that thread; between the selection of an allocation's locations and
\* its writes to the chunk table and the file's chunk sequence no table changes.
C15_OneAtATime ==
    /\ [](/\ Cardinality(InProgress) <= 1
          /\ \A t \in InProgress : lock = t
          /\ InProgress = {} => lock = "free")
    /\ [][(tables' /= tables \/ ret' /= ret) =>
            \E t \in Threads :
                /\ lock = t
                /\ caller[t].stage \in {"in", "selected"}
                /\ caller'[t].stage = "out"]_vars
    /\ [][\A t \in Threads :
            (caller[t].stage = "selected" /\ caller'[t].stage = "selected")
                => tables' = tables]_vars

\* A thread is between the selection and the writes of an allocation for a file
\* of the namespace, with a chunkserver selected.
C15_Witness ==
    \E t \in Threads :
        /\ caller[t].stage = "selected"
        /\ caller[t].name \in DOMAIN file_registry
        /\ caller[t].locations /= <<>>

\* C16: a chunkserver whose heartbeat thread has stopped is in the end reported
\* dead by a sweep; and a chunkserver whose last heartbeat is older than the
\* window is in no selection of locations.
C16_DeadDetected ==
    /\ \A n \in Nodes :
          (n \in DOMAIN hb_thread /\ hb_thread[n] = "done")
              ~> (ret.op = "monitor_chunkservers" /\ n \in ret.with)
    /\ [](\A n \in DOMAIN last_heartbeat :
            now - last_heartbeat[n] > LivenessWindow =>
                \A locations \in SelectChunkservers(REPLICATION_FACTOR) :
                    \A i \in DOMAIN locations : locations[i] /= n)

\* A sweep reported a chunkserver that was shut down, while the other
\* chunkserver, still heartbeating, can be selected.
C16_Witness ==
    /\ ret.op = "monitor_chunkservers"
    /\ \E n \in ret.with : hb_thread[n] = "done" /\ ~monitoring_active[n]
    /\ Available /= {}

====
